---------------------------- MODULE Spec2Model ----------------------------
(***************************************************************************)
(* Model of followorder.py: SmartWalletTracker.  One asyncio task per      *)
(* watched wallet (monitor_wallet), all sharing processed_signatures.      *)
(* A step of the model is the synchronous code a task runs between two     *)
(* suspension points (await of the listing, of get_transaction, of the     *)
(* enrichment lookup, of asyncio.sleep).                                   *)
(***************************************************************************)
EXTENDS Integers, Sequences, FiniteSets, TLC

(***************************************************************************)
(* Bounds of the model.                                                    *)
(***************************************************************************)
\* longest listing a get_signatures_for_address call returns in the model
\* (the code asks for limit=10)
MaxListing == 2

(***************************************************************************)
(* Python values.                                                          *)
(***************************************************************************)
None == [isNone |-> TRUE]
Some(v) == [isNone |-> FALSE, v |-> v]

Min(S) == CHOOSE x \in S : \A y \in S : x <= y

\* the exception classes the program can meet; all derive from Exception
ExceptionClasses ==
    {"ValueError", "RPCError", "TypeError", "ClientError", "DecodeError",
     "UnicodeEncodeError"}

(***************************************************************************)
(* Configuration: __init__.                                                *)
(***************************************************************************)
\* the watch list; "wBad" stands for a string that is no base58 public key
SMART_WALLETS == <<"w1", "w2", "wBad">>

Wallets == {SMART_WALLETS[i] : i \in 1..Len(SMART_WALLETS)}

\* Pubkey.from_string(wallet_address) raises ValueError on a malformed address
ValidAddress(w) == w # "wBad"

HTTP_OK == 200

(***************************************************************************)
(* The chain: what get_transaction returns for each signature once the     *)
(* transaction is confirmed.  Log lines are character sequences.           *)
(***************************************************************************)
Signatures == {"s1", "s2", "s3"}

TRANSFER == <<"T","r","a","n","s","f","e","r">>
LineInvoke == <<"i","n","v","o","k","e">>
LineTransfer == <<"l","o","g",":"," ">> \o TRANSFER
LineChecked == TRANSFER \o <<"C","h","e","c","k","e","d">>
LineLower == <<"t","r","a","n","s","f","e","r">>

\* the signatures a listing of each wallet can hold: s1 is a transaction
\* between the two watched wallets
History(w) ==
    CASE w = "w1" -> {"s1", "s2"}
      [] w = "w2" -> {"s1", "s3"}
      [] OTHER -> {}

\* s1: two transfer-indicating lines; s2: none; s3: no block time
Chain ==
    [s \in Signatures |->
        CASE s = "s1" -> [block_time |-> Some(90061),
                          log_messages |-> <<LineInvoke, LineTransfer, LineChecked>>]
          [] s = "s2" -> [block_time |-> Some(3600),
                          log_messages |-> <<LineInvoke, LineLower>>]
          [] s = "s3" -> [block_time |-> None,
                          log_messages |-> <<LineTransfer>>]]

\* Python's  pat in s  on strings
Contains(pat, s) ==
    \E i \in 0..(Len(s) - Len(pat)) : SubSeq(s, i + 1, i + Len(pat)) = pat

\* datetime.fromtimestamp(t).strftime('%Y-%m-%d %H:%M:%S'), the date kept as
\* the day number since the epoch
FormatTimestamp(t) ==
    <<t \div 86400, (t % 86400) \div 3600, (t % 3600) \div 60, t % 60>>

(***************************************************************************)
(* The enrichment service: what one GET /token/<address> can end as.       *)
(***************************************************************************)
JsonObject(items) == [type |-> "object", items |-> items]
JsonArray(items) == [type |-> "array", items |-> items]

MetaPriced == JsonObject([symbol |-> "AAA", price |-> "1.5"])
MetaDirection == JsonObject([symbol |-> "BBB", direction |-> "out"])
BodyArray == JsonArray(<<"x">>)

LookupOutcomes ==
    {[kind |-> "response", status |-> HTTP_OK, body |-> Some(MetaPriced)],
     [kind |-> "response", status |-> HTTP_OK, body |-> Some(MetaDirection)],
     [kind |-> "response", status |-> HTTP_OK, body |-> Some(BodyArray)],
     [kind |-> "response", status |-> HTTP_OK, body |-> None],
     [kind |-> "response", status |-> 404, body |-> None],
     [kind |-> "neterr", status |-> 0, body |-> None]}

\* Python truthiness of a decoded JSON value
Truthy(j) ==
    CASE j.type = "object" -> DOMAIN j.items # {}
      [] j.type = "array" -> Len(j.items) > 0
      [] OTHER -> FALSE

\* dict.update(m)
DictUpdate(d, m) ==
    [k \in (DOMAIN d) \cup (DOMAIN m) |-> IF k \in DOMAIN m THEN m[k] ELSE d[k]]


(***************************************************************************)
(* get_token_info.  o is how the outbound GET ended; a 200 response whose  *)
(* body is None is one whose body response.json() cannot decode.           *)
(* A call result is [exc, value, logged]: exc is the exception that        *)
(* escapes the function ("" when none does).                               *)
(***************************************************************************)
\* no handler at line 42
GetTokenInfoCatchesNothing(e) == FALSE

\* line 42: except Exception
GetTokenInfoCatches(e) == e \in ExceptionClasses

GetTokenInfo(o) ==
    LET e == IF o.kind = "neterr" THEN "ClientError"
             ELSE IF o.status = HTTP_OK /\ o.body.isNone THEN "DecodeError"
             ELSE ""
    IN  IF e # ""
        THEN IF GetTokenInfoCatches(e)
             THEN [exc |-> "", value |-> None, logged |-> {"get_token_info"}]
             ELSE [exc |-> e, value |-> None, logged |-> {}]
        ELSE IF o.status = HTTP_OK
             THEN [exc |-> "", value |-> o.body, logged |-> {}]
             ELSE [exc |-> "", value |-> None, logged |-> {}]

(***************************************************************************)
(* parse_transfer_log, from the placeholder record to the append.  The     *)
(* result is [exc, td, logged], td the transaction_data afterwards.        *)
(***************************************************************************)
\* lines 79-83: the placeholder transfer record
TokenInfo ==
    [token_address |-> "parsed-from-log", amount |-> "parsed-from-log",
     direction |-> "in/out"]

\* no handler at line 92
ParseCatchesNothing(e) == FALSE

\* line 92: except Exception
ParseCatches(e) == e \in ExceptionClasses

ParseFailed(e, td) ==
    IF ParseCatches(e)
    THEN [exc |-> "", td |-> td, logged |-> {"parse_transfer_log"}]
    ELSE [exc |-> e, td |-> td, logged |-> {}]

\* lines 87-90: merge the metadata when it is truthy, then append
MergeAndAppend(token_details, td) ==
    LET enrich == (~token_details.isNone) /\ Truthy(token_details.v)
    IN  IF enrich /\ token_details.v.type # "object"
        THEN ParseFailed("ValueError", td)
        ELSE LET info == IF enrich
                         THEN DictUpdate(TokenInfo, token_details.v.items)
                         ELSE TokenInfo
             IN  [exc |-> "",
                  td |-> [td EXCEPT !.token_transfers = Append(@, info)],
                  logged |-> {}]

ParseTransferLog(log, td, o) ==
    IF ~Contains(TRANSFER, log)
    THEN [exc |-> "", td |-> td, logged |-> {}]
    ELSE LET r == GetTokenInfo(o)
         IN  IF r.exc # ""
             THEN LET f == ParseFailed(r.exc, td)
                  IN  [f EXCEPT !.logged = @ \cup r.logged]
             ELSE LET m == MergeAndAppend(r.value, td)
                  IN  [m EXCEPT !.logged = @ \cup r.logged]

(***************************************************************************)
(* analyze_transaction.  A result is [kind, value, td, line, exc, cause,   *)
(* logged]: kind "return" (value is what is returned), "await" (suspended  *)
(* in the lookup for log line `line`, td the data so far) or "raise".      *)
(***************************************************************************)
\* no handler at line 69
AnalyzeCatchesNothing(e) == FALSE

\* line 69: except Exception
AnalyzeCatches(e) == e \in ExceptionClasses

EmptyData == [timestamp |-> <<>>, signature |-> "", token_transfers |-> <<>>,
              sol_transfer |-> 0]

AnalyzeFailed(e, logged) ==
    IF AnalyzeCatches(e)
    THEN [kind |-> "return", value |-> None, td |-> EmptyData, line |-> 0,
          exc |-> "", cause |-> e, logged |-> logged \cup {"analyze_transaction"}]
    ELSE [kind |-> "raise", value |-> None, td |-> EmptyData, line |-> 0,
          exc |-> e, cause |-> e, logged |-> logged]

\* lines 62-63: index of the next log line, from k on, with "Transfer" in it
NextTransferLine(logs, k) ==
    LET c == {j \in k..Len(logs) : Contains(TRANSFER, logs[j])}
    IN  IF c = {} THEN 0 ELSE Min(c)

\* lines 62-67 with the transfer filter inside the analyzer: nothing is
\* returned when no transfer was parsed
AnalyzeLoopFiltering(td, logs, k, logged) ==
    LET j == NextTransferLine(logs, k)
    IN  IF j = 0
        THEN [kind |-> "return",
              value |-> IF td.token_transfers = <<>> THEN None ELSE Some(td),
              td |-> td, line |-> 0, exc |-> "", cause |-> "parsed",
              logged |-> logged]
        ELSE [kind |-> "await", value |-> None, td |-> td, line |-> j,
              exc |-> "", cause |-> "", logged |-> logged]

\* lines 62-67: run the for loop from line k to the next await or the return
AnalyzeLoop(td, logs, k, logged) ==
    LET j == NextTransferLine(logs, k)
    IN  IF j = 0
        THEN [kind |-> "return", value |-> Some(td), td |-> td, line |-> 0,
              exc |-> "", cause |-> "parsed", logged |-> logged]
        ELSE [kind |-> "await", value |-> None, td |-> td, line |-> j,
              exc |-> "", cause |-> "", logged |-> logged]

FetchOutcomes == {"raise", "novalue", "value"}

\* lines 50-62: f is how get_transaction(tx_sig) ended
AnalyzeFetched(tx_sig, f) ==
    CASE f = "raise" -> AnalyzeFailed("RPCError", {})
      [] f = "novalue" ->
            [kind |-> "return", value |-> None, td |-> EmptyData, line |-> 0,
             exc |-> "", cause |-> "novalue", logged |-> {}]
      [] OTHER ->
            LET tx == Chain[tx_sig]
            IN  IF tx.block_time.isNone
                THEN AnalyzeFailed("TypeError", {})
                ELSE AnalyzeLoop(
                        [timestamp |-> FormatTimestamp(tx.block_time.v),
                         signature |-> tx_sig,
                         token_transfers |-> <<>>,
                         sol_transfer |-> 0],
                        tx.log_messages, 1, {})

\* lines 65-67: the lookup for line `line` ended as o
AnalyzeLookedUp(tx_sig, td, line, o) ==
    LET logs == Chain[tx_sig].log_messages
        p == ParseTransferLog(logs[line], td, o)
    IN  IF p.exc # ""
        THEN AnalyzeFailed(p.exc, p.logged)
        ELSE AnalyzeLoop(p.td, logs, line + 1, p.logged)

(***************************************************************************)
(* process_transaction: the Event Sink.  renders is whether print and      *)
(* json.dumps go through (print raises UnicodeEncodeError on a terminal    *)
(* that cannot encode the glyphs).  The result is [exc, call, logged],     *)
(* call the call as the sink saw it.                                       *)
(***************************************************************************)
\* no handler at line 137
ProcessCatchesNothing(e) == FALSE

\* line 137: except Exception
ProcessCatches(e) == e \in ExceptionClasses

NoCall == [called |-> FALSE, wallet |-> "", event |-> EmptyData, rendered |-> FALSE]

ProcessTransaction(wallet_address, tx_data, renders) ==
    LET call == [called |-> TRUE, wallet |-> wallet_address, event |-> tx_data,
                 rendered |-> renders]
    IN  IF renders
        THEN [exc |-> "", call |-> call, logged |-> {}]
        ELSE IF ProcessCatches("UnicodeEncodeError")
             THEN [exc |-> "", call |-> call, logged |-> {"process_transaction"}]
             ELSE [exc |-> "UnicodeEncodeError", call |-> call, logged |-> {}]

\* line 109 without the test of token_transfers
ForwardableAnyEvent(tx_data) == ~tx_data.isNone

\* line 109: tx_data and tx_data["token_transfers"]
Forwardable(tx_data) ==
    (~tx_data.isNone) /\ tx_data.v.token_transfers # <<>>

(***************************************************************************)
(* State.                                                                  *)
(*   mon[w]                the task monitor_wallet(w): where it is         *)
(*                         suspended (pc), the listing it iterates         *)
(*                         (signatures), its position in it (idx), and     *)
(*                         the analyze_transaction frame it is inside      *)
(*                         (transaction_data, line; lookups is history:    *)
(*                         how the lookups of this frame ended), and the   *)
(*                         exception that ended it (exit)                  *)
(*   processed_signatures  self.processed_signatures                       *)
(*   sink                  the call of process_transaction the latest      *)
(*                         step made (NoCall when it made none): the sink  *)
(*                         prints and logs, it keeps nothing               *)
(*   main                  start_monitoring / main                         *)
(*   analyzeCount          history: invocations of analyze_transaction     *)
(*                         per task and signature                          *)
(*   sinkCount             history: calls of process_transaction per       *)
(*                         signature                                       *)
(*   last                  history: what the latest step did (the task,    *)
(*                         the step, the logging.error calls it made,      *)
(*                         the listing or the lookup answer it received,   *)
(*                         and the analyze_transaction call that ended in  *)
(*                         it)                                             *)
(***************************************************************************)
VARIABLES mon, processed_signatures, sink, main, analyzeCount, sinkCount, last

vars == <<mon, processed_signatures, sink, main, analyzeCount, sinkCount, last>>

\* the listings a call for wallet w can return: at most MaxListing distinct
\* signatures, most recent first
Listings(w) ==
    {l \in UNION {[1..n -> History(w)] : n \in 0..MaxListing} :
        \A i, j \in 1..Len(l) : i # j => l[i] # l[j]}

Idle == [pc |-> "poll", signatures |-> <<>>, idx |-> 0, line |-> 0,
         transaction_data |-> EmptyData, lookups |-> <<>>, exit |-> ""]

NoAnalysis == [ended |-> FALSE, sig |-> "", fetch |-> "", cause |-> "",
               value |-> None, lookups |-> <<>>, forwarded |-> FALSE]

NoStep == [task |-> "", step |-> "", logged |-> {}, listing |-> <<>>,
           lookup |-> None, analysis |-> NoAnalysis]

Init ==
    /\ mon = [w \in Wallets |-> Idle]
    /\ processed_signatures = {}
    /\ sink = NoCall
    /\ main = "gathering"
    /\ analyzeCount = [w \in Wallets |-> [s \in Signatures |-> 0]]
    /\ sinkCount = [s \in Signatures |-> 0]
    /\ last = NoStep

CurrentSig(w) == mon[w].signatures[mon[w].idx]

\* no handler at line 115
MonitorCatchesNothing(e) == FALSE

\* line 115: except Exception
MonitorCatches(e) == e \in ExceptionClasses

(***************************************************************************)
(* An exception e reaches the try of monitor_wallet(w) (lines 115-116).    *)
(* Caught, it is logged and the task returns; gather goes on waiting for   *)
(* the other tasks.  Uncaught, it leaves the task, gather re-raises it in  *)
(* start_monitoring, main logs it and asyncio.run cancels the tasks that   *)
(* are left (lines 146, 151-155).                                          *)
(***************************************************************************)
MonitorRaised(w, e, snk, step) ==
    /\ processed_signatures' = processed_signatures
    /\ sink' = snk
    /\ sinkCount' = IF snk.called THEN [sinkCount EXCEPT ![snk.event.signature] = @ + 1]
                    ELSE sinkCount
    /\ analyzeCount' = analyzeCount
    /\ IF MonitorCatches(e)
       THEN /\ mon' = [mon EXCEPT ![w] = [Idle EXCEPT !.pc = "done", !.exit = e]]
            /\ main' = main
            /\ last' = [step EXCEPT !.logged = @ \cup {"monitor_wallet"}]
       ELSE /\ mon' = [v \in Wallets |->
                        IF v = w THEN [Idle EXCEPT !.pc = "raised", !.exit = e]
                        ELSE IF mon[v].pc = "done" THEN mon[v]
                        ELSE [Idle EXCEPT !.pc = "cancelled"]]
            /\ main' = "aborted"
            /\ last' = [step EXCEPT !.logged = @ \cup {"main"}]

\* line 105 over the listing in reverse: the last unseen signature first
NextNewFromEnd(l, i, P) ==
    LET c == {j \in i..Len(l) : l[j] \notin P}
    IN  IF c = {} THEN 0 ELSE CHOOSE x \in c : \A y \in c : x >= y

\* the check of line 106 left out
NextNewUnchecked(l, i, P) == IF i <= Len(l) THEN i ELSE 0

\* line 106: index of the next signature of l, from i on, not yet in P
NextNew(l, i, P) ==
    LET c == {j \in i..Len(l) : l[j] \notin P}
    IN  IF c = {} THEN 0 ELSE Min(c)

\* line 111 as an assignment: the set is replaced by the new signature
MarkSeenOnly(P, sig) == {sig}

\* the add of line 111 left out
MarkSeenNever(P, sig) == P

\* line 111: self.processed_signatures.add(sig.signature)
MarkSeen(P, sig) == P \cup {sig}

\* line 113 left out: the next listing call follows the batch at once
AfterBatchNoPause == [Idle EXCEPT !.pc = "listing"]

\* line 113: await asyncio.sleep(1) after the batch
AfterBatch == [Idle EXCEPT !.pc = "sleep"]

(***************************************************************************)
(* Lines 105-113: the for loop of monitor_wallet(w) over listing l, from   *)
(* position i to its next await: the get_transaction of the next           *)
(* signature not in processed_signatures (line 108 entered, line 50), or   *)
(* the sleep after the batch.                                              *)
(***************************************************************************)
ForLoop(w, l, i, P, snk, step) ==
    LET j == NextNew(l, i, P)
    IN  /\ processed_signatures' = P
        /\ sink' = snk
        /\ sinkCount' = IF snk.called
                        THEN [sinkCount EXCEPT ![snk.event.signature] = @ + 1]
                        ELSE sinkCount
        /\ main' = main
        /\ last' = step
        /\ IF j = 0
           THEN /\ mon' = [mon EXCEPT ![w] = AfterBatch]
                /\ analyzeCount' = analyzeCount
           ELSE /\ mon' = [mon EXCEPT ![w] =
                            [Idle EXCEPT !.pc = "fetch", !.signatures = l,
                                         !.idx = j]]
                /\ analyzeCount' = [analyzeCount EXCEPT ![w][l[j]] = @ + 1]

(***************************************************************************)
(* Lines 108-111: analyze_transaction of the current signature went on to  *)
(* r (it returned, raised, or is suspended in its next lookup); f is how   *)
(* its get_transaction ended and lookups are the lookups it has made.      *)
(***************************************************************************)
AfterAnalysis(w, r, f, lookups, renders, name) ==
    LET sig == CurrentSig(w)
        l == mon[w].signatures
        fwd == r.kind = "return" /\ Forwardable(r.value)
        step == [task |-> w, step |-> name, logged |-> r.logged,
                 listing |-> <<>>,
                 lookup |-> IF lookups = <<>> THEN None
                            ELSE Some(lookups[Len(lookups)]),
                 analysis |-> IF r.kind = "await" THEN NoAnalysis
                              ELSE [ended |-> TRUE, sig |-> sig, fetch |-> f,
                                    cause |-> r.cause,
                                    value |-> r.value, lookups |-> lookups,
                                    forwarded |-> fwd]]
    IN  CASE r.kind = "await" ->
               /\ mon' = [mon EXCEPT ![w].pc = "enrich", ![w].line = r.line,
                                     ![w].transaction_data = r.td,
                                     ![w].lookups = lookups]
               /\ last' = step
               /\ sink' = NoCall
               /\ UNCHANGED <<processed_signatures, main, analyzeCount, sinkCount>>
          [] r.kind = "raise" ->
               MonitorRaised(w, r.exc, NoCall, step)
          [] OTHER ->
               IF fwd
               THEN LET p == ProcessTransaction(w, r.value.v, renders)
                        snk == p.call
                        stp == [step EXCEPT !.logged = @ \cup p.logged]
                    IN  IF p.exc # ""
                        THEN MonitorRaised(w, p.exc, snk, stp)
                        ELSE ForLoop(w, l, mon[w].idx + 1,
                                     MarkSeen(processed_signatures, sig), snk, stp)
               ELSE ForLoop(w, l, mon[w].idx + 1,
                            MarkSeen(processed_signatures, sig), NoCall, step)

StepOf(w, name) == [NoStep EXCEPT !.task = w, !.step = name]

(***************************************************************************)
(* The steps of a task.                                                    *)
(***************************************************************************)
\* lines 98-103, first pass: Pubkey.from_string, then the listing call
Poll(w) ==
    /\ mon[w].pc = "poll"
    /\ IF ValidAddress(w)
       THEN /\ mon' = [mon EXCEPT ![w].pc = "listing"]
            /\ last' = StepOf(w, "Poll")
            /\ sink' = NoCall
            /\ UNCHANGED <<processed_signatures, main, analyzeCount, sinkCount>>
       ELSE MonitorRaised(w, "ValueError", NoCall, StepOf(w, "Poll"))

\* lines 100-113 where an empty listing is an error
ListReturnEmptyRaises(w, l) ==
    /\ mon[w].pc = "listing"
    /\ IF l = <<>>
       THEN MonitorRaised(w, "TypeError", NoCall,
                          [StepOf(w, "ListReturn") EXCEPT !.listing = l])
       ELSE ForLoop(w, l, 1, processed_signatures, NoCall,
                    [StepOf(w, "ListReturn") EXCEPT !.listing = l])

\* lines 100-113: the listing call returns l
ListReturn(w, l) ==
    /\ mon[w].pc = "listing"
    /\ ForLoop(w, l, 1, processed_signatures, NoCall,
               [StepOf(w, "ListReturn") EXCEPT !.listing = l])

\* lines 100-103: the listing call raises
ListFail(w) ==
    /\ mon[w].pc = "listing"
    /\ MonitorRaised(w, "RPCError", NoCall, StepOf(w, "ListFail"))

\* line 50: get_transaction ends as f
FetchReturn(w, f, renders) ==
    /\ mon[w].pc = "fetch"
    /\ AfterAnalysis(w, AnalyzeFetched(CurrentSig(w), f), f, <<>>, renders,
                     "FetchReturn")

\* line 86 (lines 37-40): the lookup ends as o
LookupReturn(w, o, renders) ==
    /\ mon[w].pc = "enrich"
    /\ AfterAnalysis(w,
            AnalyzeLookedUp(CurrentSig(w), mon[w].transaction_data, mon[w].line, o),
            "value", Append(mon[w].lookups, o), renders, "LookupReturn")

\* line 113, then lines 98-103: the sleep ends and the next listing call starts
Wake(w) ==
    /\ mon[w].pc = "sleep"
    /\ mon' = [mon EXCEPT ![w].pc = "listing"]
    /\ last' = StepOf(w, "Wake")
    /\ sink' = NoCall
    /\ UNCHANGED <<processed_signatures, main, analyzeCount, sinkCount>>

\* line 146: every task has returned, gather returns
GatherReturn ==
    /\ main = "gathering"
    /\ \A w \in Wallets : mon[w].pc = "done"
    /\ main' = "finished"
    /\ last' = StepOf("", "GatherReturn")
    /\ sink' = NoCall
    /\ UNCHANGED <<mon, processed_signatures, analyzeCount, sinkCount>>

Next ==
    \/ \E w \in Wallets : Poll(w)
    \/ \E w \in Wallets : \E l \in Listings(w) : ListReturn(w, l)
    \/ \E w \in Wallets : ListFail(w)
    \/ \E w \in Wallets : \E f \in FetchOutcomes : \E renders \in BOOLEAN :
            FetchReturn(w, f, renders)
    \/ \E w \in Wallets : \E o \in LookupOutcomes : \E renders \in BOOLEAN :
            LookupReturn(w, o, renders)
    \/ \E w \in Wallets : Wake(w)
    \/ GatherReturn

Spec == Init /\ [][Next]_vars

(***************************************************************************)
(* The event loop resumes a task whose awaited network call has returned:  *)
(* every get_transaction and every enrichment lookup ends, with a value    *)
(* or an error.                                                            *)
(***************************************************************************)
NetworkReturns(w) ==
    \/ \E f \in FetchOutcomes : \E renders \in BOOLEAN : FetchReturn(w, f, renders)
    \/ \E o \in LookupOutcomes : \E renders \in BOOLEAN : LookupReturn(w, o, renders)

(***************************************************************************)
(* The tracker watching the two valid wallets, for the liveness of         *)
(* marking.  The task of w1 meets every listing and every outcome of its   *)
(* calls; the task of w2 is its concurrent company: it lists the signature *)
(* the two wallets share and marks it without an event.  The process is    *)
(* not shut down, and a task that awaits a network call is resumed.        *)
(***************************************************************************)
LiveTasks == {"w1", "w2"}

LiveListings(w) == IF w = "w1" THEN Listings(w) ELSE {<<"s1">>}

LiveFetchOutcomes(w) == IF w = "w1" THEN FetchOutcomes ELSE {"raise", "novalue"}

LiveNext ==
    \/ \E w \in LiveTasks : Poll(w)
    \/ \E w \in LiveTasks : \E l \in LiveListings(w) : ListReturn(w, l)
    \/ \E w \in LiveTasks : ListFail(w)
    \/ \E w \in LiveTasks : \E f \in LiveFetchOutcomes(w) : \E renders \in BOOLEAN :
            FetchReturn(w, f, renders)
    \/ \E w \in LiveTasks : \E o \in LookupOutcomes : \E renders \in BOOLEAN :
            LookupReturn(w, o, renders)
    \/ \E w \in LiveTasks : Wake(w)

LiveSpec == Init /\ [][LiveNext]_vars /\ \A w \in LiveTasks : WF_vars(NetworkReturns(w))

(***************************************************************************)
(* Properties.                                                             *)
(***************************************************************************)
RECURSIVE SumOver(_, _)
SumOver(f, S) ==
    IF S = {} THEN 0
    ELSE LET x == CHOOSE y \in S : TRUE IN f[x] + SumOver(f, S \ {x})

\* invocations of analyze_transaction(s) by all tasks together
TotalAnalyses(s) == SumOver([w \in Wallets |-> analyzeCount[w][s]], Wallets)

Analyzing(w, s) == mon[w].pc \in {"fetch", "enrich"} /\ CurrentSig(w) = s

\* C1: analyze_transaction(s) is invoked at most once in the process
\* lifetime, over all the monitors sharing processed_signatures.
C1_AnalyzedAtMostOnce ==
    \A s \in Signatures : TotalAnalyses(s) <= 1

\* C2: one monitor analyzes a signature at most once, however often its
\* listings hold it again: a task that has invoked analyze_transaction(s)
\* never invokes it a second time.
C2_DedupIdempotence ==
    \A w \in Wallets : \A s \in Signatures : analyzeCount[w][s] <= 1

\* a listing that holds s again reached the task that analyzed s in an
\* earlier cycle, and the task went to its pause without analyzing
C2_Witness ==
    /\ last.step = "ListReturn"
    /\ mon[last.task].pc = "sleep"
    /\ \E i \in 1..Len(last.listing) : analyzeCount[last.task][last.listing[i]] = 1

\* C3: a signature whose analyze_transaction call has ended, with whatever
\* outcome, is in processed_signatures; every signature a task has invoked
\* analyze_transaction for is in processed_signatures unless that call is
\* still running.
C3_MarkedWhateverOutcome ==
    /\ last.analysis.ended => last.analysis.sig \in processed_signatures
    /\ \A w \in Wallets : \A s \in Signatures :
          analyzeCount[w][s] >= 1 => (s \in processed_signatures \/ Analyzing(w, s))

\* an analysis that ended by an exception inside the analyzer, its
\* signature marked
C3_Witness ==
    /\ last.analysis.ended
    /\ last.analysis.cause = "RPCError"
    /\ last.analysis.value.isNone
    /\ last.analysis.sig \in processed_signatures

\* C4: the monitor of a wallet with a valid address never terminates
\* because of a bad cycle.
C4_MonitorSurvivesBadCycle ==
    \A w \in Wallets : ValidAddress(w) => mon[w].pc # "done"

\* C5: the step in which a failure ends one wallet's task leaves every
\* other task where it is and start_monitoring waiting; no task is ever
\* cancelled and start_monitoring never aborts.
C5_FailureIsolation ==
    [][\A w \in Wallets :
          (mon[w].pc \notin {"done", "raised", "cancelled"}
             /\ mon'[w].pc \in {"done", "raised", "cancelled"})
          => /\ mon'[w].pc = "done"
             /\ main' = main
             /\ main' # "aborted"
             /\ \A v \in Wallets \ {w} : mon'[v] = mon[v]]_vars

\* one task ended by a failed listing while another is inside an analysis
C5_Witness ==
    /\ main = "gathering"
    /\ \E w, v \in Wallets :
          /\ ValidAddress(w) /\ mon[w].pc = "done"
          /\ mon[v].pc \in {"fetch", "enrich"}

\* C6: every event passed to process_transaction has at least one
\* transfer and is the event the analysis that just ended returned; an
\* analysis that returned nothing, or an event without transfers, passes
\* nothing.
C6_NoEmptyEventAtSink ==
    /\ sink.called =>
          /\ Len(sink.event.token_transfers) > 0
          /\ last.analysis.ended
          /\ last.analysis.value = Some(sink.event)
    /\ (last.analysis.ended
          /\ (last.analysis.value.isNone
              \/ last.analysis.value.v.token_transfers = <<>>))
       => ~sink.called

\* an analysis ended with an event that has no transfers, and no call
C6_Witness ==
    /\ last.analysis.ended
    /\ ~last.analysis.value.isNone
    /\ last.analysis.value.v.token_transfers = <<>>
    /\ ~sink.called
    /\ sinkCount[last.analysis.sig] = 0

Unknown(o) == o.kind = "neterr" \/ o.status # HTTP_OK \/ o.body.isNone

\* the metadata cannot be merged into the transfer: the line fails to parse
Unmergeable(o) == ~Unknown(o) /\ o.body.v.type # "object" /\ Truthy(o.body.v)

\* the position, among the transfers of the event, of the transfer parsed
\* for the i-th lookup
TransferIndex(lookups, i) ==
    Cardinality({k \in 1..i : ~Unmergeable(lookups[k])})

\* C8: a transfer whose lookup ended "unknown" is in the event the analysis
\* returns, with neither symbol nor price, and that event is passed to
\* process_transaction.
C8_UnknownEnrichmentKeepsTransfer ==
    (last.analysis.ended /\ last.analysis.fetch = "value") =>
       LET a == last.analysis
       IN  \A i \in 1..Len(a.lookups) :
              Unknown(a.lookups[i]) =>
                 /\ ~a.value.isNone
                 /\ TransferIndex(a.lookups, i) <= Len(a.value.v.token_transfers)
                 /\ LET t == a.value.v.token_transfers[TransferIndex(a.lookups, i)]
                    IN  /\ "symbol" \notin DOMAIN t
                        /\ "price" \notin DOMAIN t
                        /\ t.token_address = TokenInfo.token_address
                 /\ sink.called
                 /\ sink.event = a.value.v

\* an event at the sink whose only transfers had the enrichment call fail
C8_Witness ==
    /\ last.analysis.ended
    /\ sink.called
    /\ Len(last.analysis.lookups) = 2
    /\ last.analysis.lookups[1].kind = "neterr"
    /\ last.analysis.lookups[2].status = 404
    /\ Len(sink.event.token_transfers) = 2

\* C9: the step in which the analysis of one signature ends in a failure
\* (nothing is returned) leaves the task in the same cycle, at the next
\* signature of the same listing that is not yet seen, or at its pause when
\* there is none, and leaves every other task where it is.
C9_FailureDoesNotAbort ==
    [][\A w \in Wallets :
          (mon[w].pc \in {"fetch", "enrich"}
             /\ last'.task = w
             /\ last'.analysis.ended
             /\ last'.analysis.value.isNone)
          => LET l == mon[w].signatures
                 rest == {j \in (mon[w].idx + 1)..Len(l) :
                             l[j] \notin processed_signatures'}
             IN  /\ rest # {} =>
                       /\ mon'[w].pc = "fetch"
                       /\ mon'[w].signatures = l
                       /\ mon'[w].idx = Min(rest)
                 /\ rest = {} => mon'[w].pc = "sleep"
                 /\ main' = main
                 /\ \A v \in Wallets \ {w} : mon'[v] = mon[v]]_vars

\* the fetch of the first signature of a listing raised and the task is at
\* the fetch of the second
C9_Witness ==
    /\ last.analysis.ended
    /\ last.analysis.cause \in ExceptionClasses
    /\ last.analysis.value.isNone
    /\ mon[last.task].pc = "fetch"
    /\ mon[last.task].idx = 2
    /\ mon[last.task].signatures[1] = last.analysis.sig
    /\ \E v \in Wallets \ {last.task} : mon[v].pc \in {"fetch", "enrich"}

\* C10: a transfer line whose parsing fails is the only one left out: the
\* event is returned and holds, in the order of the log, one transfer for
\* each line that did not fail, each with the metadata of its own lookup;
\* the failure of the line just parsed is logged.
C10_ParseFailureSkipsOneLine ==
    (last.analysis.ended /\ last.analysis.fetch = "value"
        /\ ~Chain[last.analysis.sig].block_time.isNone) =>
       LET a == last.analysis
           n == Len(a.lookups)
       IN  /\ ~a.value.isNone
           /\ Len(a.value.v.token_transfers) = TransferIndex(a.lookups, n)
           /\ \A i \in 1..n :
                 ~Unmergeable(a.lookups[i]) =>
                    LET t == a.value.v.token_transfers[TransferIndex(a.lookups, i)]
                    IN  IF Unknown(a.lookups[i])
                        THEN "symbol" \notin DOMAIN t
                        ELSE t.symbol = a.lookups[i].body.v.items.symbol
           /\ (n > 0 /\ Unmergeable(a.lookups[n]))
                 => "parse_transfer_log" \in last.logged

\* two transfer lines, the first failed to parse, the event at the sink
\* holds exactly the transfer of the second
C10_Witness ==
    /\ last.analysis.ended
    /\ Len(last.analysis.lookups) = 2
    /\ Unmergeable(last.analysis.lookups[1])
    /\ ~Unknown(last.analysis.lookups[2])
    /\ ~Unmergeable(last.analysis.lookups[2])
    /\ sink.called
    /\ Len(sink.event.token_transfers) = 1
    /\ sink.event.token_transfers[1].symbol = "AAA"

Range(q) == {q[i] : i \in 1..Len(q)}

\* C11: a task is inside the analysis of a signature of its listing only
\* when every signature before it in that listing is in
\* processed_signatures; the analysis that ended in the step that started
\* the next one is of an earlier signature of the same listing, marked,
\* and its event, if it has one to forward, was passed to the sink in that
\* step.
C11_ListingOrder ==
    \A w \in Wallets :
       mon[w].pc \in {"fetch", "enrich"} =>
          /\ \A j \in 1..(mon[w].idx - 1) :
                mon[w].signatures[j] \in processed_signatures
          /\ (last.task = w /\ last.analysis.ended) =>
                /\ \E j \in 1..(mon[w].idx - 1) :
                      mon[w].signatures[j] = last.analysis.sig
                /\ last.analysis.sig \in processed_signatures
                /\ last.analysis.forwarded =>
                      (sink.called /\ sink.event.signature = last.analysis.sig)

\* the first signature of a listing was analyzed, forwarded and marked in
\* the step that started the analysis of the second
C11_Witness ==
    \E w \in Wallets :
       /\ mon[w].pc = "fetch"
       /\ mon[w].idx = 2
       /\ last.task = w
       /\ last.analysis.ended
       /\ last.analysis.sig = mon[w].signatures[1]
       /\ sink.called
       /\ sink.event.signature = mon[w].signatures[1]

\* C12: no step removes a signature from processed_signatures.
C12_SeenSetGrows ==
    [][processed_signatures \subseteq processed_signatures']_vars

\* a second signature was added to a set that held one
C12_Witness ==
    /\ Cardinality(processed_signatures) >= 2
    /\ last.analysis.ended
    /\ last.analysis.sig \in processed_signatures

\* C13: the task of a wallet ends only by the setup failure of an invalid
\* address.
C13_EndsOnlyOnSetupFailure ==
    \A w \in Wallets :
       mon[w].pc = "done" => (~ValidAddress(w) /\ mon[w].exit = "ValueError")

\* C14: the step in which a listing call returns the empty listing invokes
\* no analysis, logs no error, calls no sink, leaves processed_signatures
\* as it is and takes the task to its pause, from which the next cycle
\* can start; the step in which a task enters analyze_transaction(s) has s
\* in the listing the task iterates, which is the listing just returned
\* when the step is the return of a listing call.
C14_EmptyListing ==
    [][\A w \in Wallets :
          /\ (mon[w].pc = "listing" /\ last'.task = w
                /\ last'.step = "ListReturn" /\ last'.listing = <<>>)
             => /\ mon'[w].pc = "sleep"
                /\ analyzeCount' = analyzeCount
                /\ processed_signatures' = processed_signatures
                /\ ~sink'.called
                /\ sinkCount' = sinkCount
                /\ last'.logged = {}
                /\ ~last'.analysis.ended
          /\ \A s \in Signatures :
                analyzeCount'[w][s] # analyzeCount[w][s]
                => /\ mon'[w].pc = "fetch"
                   /\ CurrentSig(w)' = s
                   /\ s \in Range(mon'[w].signatures)
                   /\ IF mon[w].pc = "listing"
                      THEN mon'[w].signatures = last'.listing
                      ELSE mon'[w].signatures = mon[w].signatures]_vars

\* an empty listing was returned and the task is at its pause
C14_Witness ==
    /\ last.step = "ListReturn"
    /\ last.listing = <<>>
    /\ mon[last.task].pc = "sleep"
    /\ last.logged = {}
    /\ ~sink.called

\* C15: every transfer of a returned event has the token identifier, the
\* amount and the direction the parser produced, whatever metadata was
\* merged into it.
C15_EnrichmentAdditive ==
    (last.analysis.ended /\ ~last.analysis.value.isNone) =>
       \A i \in 1..Len(last.analysis.value.v.token_transfers) :
          LET t == last.analysis.value.v.token_transfers[i]
          IN  /\ t.token_address = TokenInfo.token_address
              /\ t.amount = TokenInfo.amount
              /\ t.direction = TokenInfo.direction

\* C16: get_token_info lets no exception out and returns the decoded body
\* on a 200 response and None on every other outcome; the analysis that
\* made the lookup goes on: it is at its next await, or it returned its
\* event, and the task has not ended.
C16_LookupNeverRaises ==
    (last.step = "LookupReturn" /\ ~last.lookup.isNone) =>
       LET o == last.lookup.v
           r == GetTokenInfo(o)
       IN  /\ r.exc = ""
           /\ (o.kind = "response" /\ o.status = HTTP_OK /\ ~o.body.isNone)
                 => r.value = o.body
           /\ (o.kind # "response" \/ o.status # HTTP_OK \/ o.body.isNone)
                 => r.value.isNone
           /\ (o.kind # "response" \/ (o.status = HTTP_OK /\ o.body.isNone))
                 => "get_token_info" \in last.logged
           /\ last.analysis.ended => ~last.analysis.value.isNone
           /\ mon[last.task].pc \in {"enrich", "fetch", "sleep"}

\* the lookup ended by a network failure and the analysis is at the lookup
\* of its next transfer line
C16_Witness ==
    /\ last.step = "LookupReturn"
    /\ ~last.lookup.isNone
    /\ last.lookup.v.kind = "neterr"
    /\ mon[last.task].pc = "enrich"
    /\ Len(mon[last.task].transaction_data.token_transfers) = 1

\* C17: a task issues a listing call only as its first act or out of its
\* pause, and enters its pause only from the listing or the analysis whose
\* end finishes the batch, every signature of the listing then being in
\* processed_signatures; a returned listing never leads to the next
\* listing call without the pause.
C17_Pacing ==
    [][\A w \in Wallets :
          /\ (mon'[w].pc = "listing" /\ mon[w].pc # "listing")
                => mon[w].pc \in {"poll", "sleep"}
          /\ (mon[w].pc = "listing" /\ mon'[w].pc # "listing")
                => mon'[w].pc \in {"fetch", "sleep", "done"}
          /\ (mon[w].pc \in {"fetch", "enrich"} /\ mon'[w].pc # mon[w].pc)
                => mon'[w].pc \in {"fetch", "enrich", "sleep"}
          /\ (mon'[w].pc = "sleep" /\ mon[w].pc # "sleep")
                => /\ mon[w].pc \in {"listing", "fetch", "enrich"}
                   /\ Range(IF mon[w].pc = "listing" THEN last'.listing
                            ELSE mon[w].signatures)
                         \subseteq processed_signatures'
          /\ (mon[w].pc = "sleep" /\ mon'[w].pc # "sleep")
                => mon'[w].pc = "listing"]_vars

\* the pause after a batch with an analysis in it ended and the next
\* listing call is out
C17_Witness ==
    /\ last.step = "Wake"
    /\ mon[last.task].pc = "listing"
    /\ \E s \in Signatures : analyzeCount[last.task][s] = 1

\* C18: at most one event for a signature is passed to process_transaction
\* in the process lifetime.
C18_OneEventPerSignature ==
    \A s \in Signatures : sinkCount[s] <= 1

\* C19: the step in which process_transaction fails on an event adds the
\* event's signature to processed_signatures, logs the failure, starts no
\* second analysis of that signature and leaves the task in the same
\* cycle, at the next signature of the listing that is not yet seen or at
\* its pause when there is none.
C19_SinkFailureContained ==
    [][\A w \in Wallets :
          (mon[w].pc \in {"fetch", "enrich"} /\ last'.task = w
             /\ sink'.called /\ ~sink'.rendered)
          => LET l == mon[w].signatures
                 sig == l[mon[w].idx]
                 rest == {j \in (mon[w].idx + 1)..Len(l) :
                             l[j] \notin processed_signatures'}
             IN  /\ sink'.event.signature = sig
                 /\ sig \in processed_signatures'
                 /\ processed_signatures \subseteq processed_signatures'
                 /\ "process_transaction" \in last'.logged
                 /\ analyzeCount'[w][sig] = analyzeCount[w][sig]
                 /\ rest # {} =>
                       /\ mon'[w].pc = "fetch"
                       /\ mon'[w].signatures = l
                       /\ mon'[w].idx = Min(rest)
                 /\ rest = {} => mon'[w].pc = "sleep"]_vars

\* the sink failed on the event of the first signature of a listing and
\* the task is at the fetch of the second
C19_Witness ==
    /\ sink.called
    /\ ~sink.rendered
    /\ sink.event.signature \in processed_signatures
    /\ mon[last.task].pc = "fetch"
    /\ mon[last.task].idx = 2
    /\ mon[last.task].signatures[1] = sink.event.signature

\* C20: when every network call returns, each signature of the listing a
\* task iterates is eventually in processed_signatures.
C20_ListedEventuallyMarked ==
    \A w \in LiveTasks : \A s \in History(w) :
       (mon[w].pc \in {"fetch", "enrich"} /\ s \in Range(mon[w].signatures))
          ~> (s \in processed_signatures)

\* the batch of a listing of two signatures is through, its last analysis
\* ended by an exception, and both signatures are marked
C20_Witness ==
    /\ last.analysis.ended
    /\ last.analysis.cause \in ExceptionClasses
    /\ mon[last.task].pc = "sleep"
    /\ History(last.task) \subseteq processed_signatures
    /\ \A s \in History(last.task) : analyzeCount[last.task][s] = 1

=============================================================================
